---- MODULE Spec2Model ----
(***************************************************************************)
(* The "tdump" LLDB command of tree-dump-debugger (src/tdump.py).          *)
(*                                                                         *)
(* handle_tdump_command is modelled as one sequential process whose        *)
(* program counter names the source line it is about to execute.  The host *)
(* debugger (command interpreter, result sink, process) is the             *)
(* environment: every call the handler makes on it is appended to `calls`, *)
(* and what the interpreter hands back for a sub-command is chosen         *)
(* nondeterministically (a status, an error text, and whether the host     *)
(* clears the return object before it writes to it).                       *)
(*                                                                         *)
(* Python strings are sequences of one-character strings, so that          *)
(* str.format is computed and not assumed.                                 *)
(***************************************************************************)
EXTENDS Integers, Sequences, FiniteSets, TLC

\* ------------------------------------------------------------------ bounds
\* longest user expression drawn from ExprAlphabet
MaxExprLen == 2
\* longest error text the interpreter hands back
MaxErrLen == 1

\* ----------------------------------------------------------- string values
ExprAlphabet == {"'", ")", " ", "{"}
ErrAlphabet == {"x", "y"}

RECURSIVE SeqsUpTo(_, _)
SeqsUpTo(S, n) ==
    IF n = 0 THEN {<< >>}
    ELSE LET shorter == SeqsUpTo(S, n - 1)
         IN  shorter \cup {Append(s, c) : s \in shorter, c \in S}

SelfView == <<"s", "e", "l", "f", ".", "v", "i", "e", "w">>
MyApp == <<"M", "y", "A", "p", "p">>
BraceApp == <<"A", "{", "}">>

\* the expressions a user may type after "tdump"
Expressions == SeqsUpTo(ExprAlphabet, MaxExprLen) \cup {SelfView}
\* what str(ctx.target) may be
Targets == {MyApp, BraceApp}
\* the error texts of a return object ("" = no error text)
ErrTexts == SeqsUpTo(ErrAlphabet, MaxErrLen)
\* lldb.eReturnStatus* values the interpreter may leave in the return object
Statuses == {"Success", "Failed"}

\* the literals of lines 13-16
ImportTemplate ==
    <<"e", " ", "-", "l", " ", "s", "w", "i", "f", "t", " ", "-", "-", " ",
      "i", "m", "p", "o", "r", "t", " ", "{", "}">>
ImportUIKit ==
    <<"e", " ", "-", "l", " ", "s", "w", "i", "f", "t", " ", "-", "-", " ",
      "i", "m", "p", "o", "r", "t", " ", "U", "I", "K", "i", "t">>
PresentTemplate ==
    <<"e", " ", "-", "l", " ", "s", "w", "i", "f", "t", " ", "-", "-", " ",
      "T", "r", "e", "e", "D", "u", "m", "p", "D", "e", "b", "u", "g", "g",
      "e", "r", ".", "p", "r", "e", "s", "e", "n", "t", "(", "{", "}", ")">>
FlushCommand ==
    <<"e", " ", "-", "l", " ", "s", "w", "i", "f", "t", " ", "-", "-", " ",
      "C", "A", "T", "r", "a", "n", "s", "a", "c", "t", "i", "o", "n", ".",
      "f", "l", "u", "s", "h", "(", ")">>

\* ------------------------------------------------------------ str.format
\* A plausible bug: the argument is trimmed of surrounding blanks first.
RECURSIVE Strip(_)
Strip(s) ==
    IF s = << >> THEN s
    ELSE IF Head(s) = " " THEN Strip(Tail(s))
    ELSE IF s[Len(s)] = " " THEN Strip(SubSeq(s, 1, Len(s) - 1))
    ELSE s

RECURSIVE FormatRaw(_, _)
FormatRaw(template, arg) ==
    IF template = << >> THEN << >>
    ELSE IF Len(template) >= 2 /\ template[1] = "{" /\ template[2] = "{"
         THEN <<"{">> \o FormatRaw(SubSeq(template, 3, Len(template)), arg)
    ELSE IF Len(template) >= 2 /\ template[1] = "}" /\ template[2] = "}"
         THEN <<"}">> \o FormatRaw(SubSeq(template, 3, Len(template)), arg)
    ELSE IF Len(template) >= 2 /\ template[1] = "{" /\ template[2] = "}"
         THEN arg \o FormatRaw(SubSeq(template, 3, Len(template)), arg)
    ELSE <<Head(template)>> \o FormatRaw(Tail(template), arg)

FormatStripped(template, arg) == FormatRaw(template, Strip(arg))

\* template.format(arg): the replacement field {} becomes str(arg), {{ and }}
\* become one brace, every other character is copied; the inserted text is
\* not scanned again.
Format(template, arg) == FormatRaw(template, arg)

\* A plausible bug: the two imports in the other order.
BuildCommandsSwapped(expr, tgt) ==
    << ImportUIKit,
       Format(ImportTemplate, tgt),
       Format(PresentTemplate, expr),
       FlushCommand >>

\* A plausible bug: the "e -l swift -- " evaluator prefix left out.
BuildCommandsBare(expr, tgt) ==
    << SubSeq(Format(ImportTemplate, tgt), 15, Len(Format(ImportTemplate, tgt))),
       SubSeq(ImportUIKit, 15, Len(ImportUIKit)),
       SubSeq(Format(PresentTemplate, expr), 15, Len(Format(PresentTemplate, expr))),
       SubSeq(FlushCommand, 15, Len(FlushCommand)) >>

\* the list `commands` of lines 12-17
BuildCommands(expr, tgt) ==
    << Format(ImportTemplate, tgt),
       ImportUIKit,
       Format(PresentTemplate, expr),
       FlushCommand >>

\* Python truth value of a str: non-empty
Truthy(text) == text # << >>

\* ------------------------------------------------------------------ state
VARIABLES
    pc,          \* the line the handler is at: "idle", "L19".."L29", "host", "done"
    expression,  \* parameter `expression`
    target,      \* str(ctx.target)
    commands,    \* local `commands`
    idx,         \* how many elements the for loop has taken from `commands`
    command,     \* loop variable `command`
    res,         \* local `res`, the SBCommandReturnObject reused by every call
    result,      \* parameter `result`, the sink the host reads afterwards
    async,       \* the debugger's async mode
    process,     \* the debuggee: "stopped" or "running"
    debuggee,    \* the sub-commands evaluated inside the debuggee so far
    hostClears,  \* whether this host's HandleCommand clears `res` first
    calls,       \* every call made on the host, in order
    rets         \* what the interpreter produced for each sub-command, in order

vars == << pc, expression, target, commands, idx, command, res, result,
           async, process, debuggee, hostClears, calls, rets >>

Call(op, arg) == [op |-> op, arg |-> arg]

\* lldb.SBCommandReturnObject(): no status yet, no error text
NewReturnObject == [status |-> "Invalid", err |-> << >>]

Init ==
    /\ pc = "idle"
    /\ expression = << >>
    /\ target = << >>
    /\ commands = << >>
    /\ idx = 0
    /\ command = << >>
    /\ res = NewReturnObject
    /\ result = [status |-> "Invalid", error |-> << >>]
    /\ async \in BOOLEAN
    /\ process = "stopped"
    /\ debuggee = << >>
    /\ hostClears \in BOOLEAN
    /\ calls = << >>
    /\ rets = << >>

\* lines 7-17: the host calls the handler; res, interpreter and commands are set up
Invoke ==
    /\ pc = "idle"
    /\ \E e \in Expressions, t \in Targets :
          /\ expression' = e
          /\ target' = t
          /\ commands' = BuildCommands(e, t)
    /\ res' = NewReturnObject
    /\ idx' = 0
    /\ calls' = Append(calls, Call("GetCommandInterpreter", << >>))
    /\ pc' = "L19"
    /\ UNCHANGED << command, result, async, process, debuggee, hostClears, rets >>

\* A plausible bug: the loop stops one element early.
ForNextShort ==
    /\ pc = "L19"
    /\ IF idx < Len(commands) - 1
       THEN /\ idx' = idx + 1
            /\ command' = commands[idx + 1]
            /\ pc' = "L20"
       ELSE /\ pc' = "L25"
            /\ UNCHANGED << idx, command >>
    /\ UNCHANGED << expression, target, commands, res, result, async, process,
                    debuggee, hostClears, calls, rets >>

\* line 19: `for command in commands`: the next element, or the loop is over
ForNext ==
    /\ pc = "L19"
    /\ IF idx < Len(commands)
       THEN /\ idx' = idx + 1
            /\ command' = commands[idx + 1]
            /\ pc' = "L20"
       ELSE /\ pc' = "L25"
            /\ UNCHANGED << idx, command >>
    /\ UNCHANGED << expression, target, commands, res, result, async, process,
                    debuggee, hostClears, calls, rets >>

\* line 20, the call: the sub-command is handed to the interpreter
HandleCommand ==
    /\ pc = "L20"
    /\ calls' = Append(calls, Call("HandleCommand", command))
    /\ pc' = "host"
    /\ UNCHANGED << expression, target, commands, idx, command, res, result,
                    async, process, debuggee, hostClears, rets >>

\* line 20, the return: the interpreter has evaluated the sub-command in the
\* debuggee and written a status and an error text into `res`
InterpreterReturn ==
    /\ pc = "host"
    /\ \E s \in Statuses, text \in ErrTexts :
          /\ res' = [status |-> s,
                     err |-> (IF hostClears THEN << >> ELSE res.err) \o text]
          /\ rets' = Append(rets, [status |-> s, err |-> text])
    /\ debuggee' = Append(debuggee, command)
    /\ calls' = Append(calls, Call("returned", command))
    /\ pc' = "L21"
    /\ UNCHANGED << expression, target, commands, idx, command, result, async,
                    process, hostClears >>

\* A plausible bug: an error is noticed but the loop goes on.
CheckErrorNoStop ==
    /\ pc = "L21"
    /\ pc' = "L19"
    /\ UNCHANGED << expression, target, commands, idx, command, res, result,
                    async, process, debuggee, hostClears, calls, rets >>

\* line 21: `if res.GetError():`
CheckError ==
    /\ pc = "L21"
    /\ pc' = IF Truthy(res.err) THEN "L22" ELSE "L19"
    /\ UNCHANGED << expression, target, commands, idx, command, res, result,
                    async, process, debuggee, hostClears, calls, rets >>

\* A plausible bug: the error is decorated before it is stored.
SetErrorDecorated ==
    /\ pc = "L22"
    /\ result' = [result EXCEPT !.error = <<"!">> \o res.err]
    /\ calls' = Append(calls, Call("SetError", <<"!">> \o res.err))
    /\ pc' = "done"
    /\ UNCHANGED << expression, target, commands, idx, command, res, async,
                    process, debuggee, hostClears, rets >>

\* A plausible bug: the `return` after SetError is missing.
SetErrorNoReturn ==
    /\ pc = "L22"
    /\ result' = [result EXCEPT !.error = res.err]
    /\ calls' = Append(calls, Call("SetError", res.err))
    /\ pc' = "L25"
    /\ UNCHANGED << expression, target, commands, idx, command, res, async,
                    process, debuggee, hostClears, rets >>

\* lines 22-23: `result.SetError(res.GetError()); return`
SetError ==
    /\ pc = "L22"
    /\ result' = [result EXCEPT !.error = res.err]
    /\ calls' = Append(calls, Call("SetError", res.err))
    /\ pc' = "done"
    /\ UNCHANGED << expression, target, commands, idx, command, res, async,
                    process, debuggee, hostClears, rets >>

\* line 25: `target = debugger.GetSelectedTarget()`
GetSelectedTarget ==
    /\ pc = "L25"
    /\ calls' = Append(calls, Call("GetSelectedTarget", << >>))
    /\ pc' = "L26"
    /\ UNCHANGED << expression, target, commands, idx, command, res, result,
                    async, process, debuggee, hostClears, rets >>

\* line 26: `process = target.GetProcess()`
GetProcess ==
    /\ pc = "L26"
    /\ calls' = Append(calls, Call("GetProcess", << >>))
    /\ pc' = "L27"
    /\ UNCHANGED << expression, target, commands, idx, command, res, result,
                    async, process, debuggee, hostClears, rets >>

\* line 27: `result.SetStatus(lldb.eReturnStatusSuccessContinuingNoResult)`
SetStatus ==
    /\ pc = "L27"
    /\ result' = [result EXCEPT !.status = "SuccessContinuingNoResult"]
    /\ calls' = Append(calls, Call("SetStatus", << >>))
    /\ pc' = "L28"
    /\ UNCHANGED << expression, target, commands, idx, command, res, async,
                    process, debuggee, hostClears, rets >>

\* A plausible bug: async mode is switched off instead of on.
SetAsyncFalse ==
    /\ pc = "L28"
    /\ async' = FALSE
    /\ calls' = Append(calls, Call("SetAsync", <<"F", "a", "l", "s", "e">>))
    /\ pc' = "L29"
    /\ UNCHANGED << expression, target, commands, idx, command, res, result,
                    process, debuggee, hostClears, rets >>

\* line 28: `debugger.SetAsync(True)`
SetAsync ==
    /\ pc = "L28"
    /\ async' = TRUE
    /\ calls' = Append(calls, Call("SetAsync", <<"T", "r", "u", "e">>))
    /\ pc' = "L29"
    /\ UNCHANGED << expression, target, commands, idx, command, res, result,
                    process, debuggee, hostClears, rets >>

\* line 29: `process.Continue()`, after which the handler returns
Continue ==
    /\ pc = "L29"
    /\ process' = "running"
    /\ calls' = Append(calls, Call("Continue", << >>))
    /\ pc' = "done"
    /\ UNCHANGED << expression, target, commands, idx, command, res, result,
                    async, debuggee, hostClears, rets >>

Next ==
    \/ Invoke
    \/ ForNext
    \/ HandleCommand
    \/ InterpreterReturn
    \/ CheckError
    \/ SetError
    \/ GetSelectedTarget
    \/ GetProcess
    \/ SetStatus
    \/ SetAsync
    \/ Continue

Spec == Init /\ [][Next]_vars
\* ------------------------------------------------- reading the call log
\* the sub-commands handed to the interpreter so far, in order
Submitted ==
    LET hc == SelectSeq(calls, LAMBDA c : c.op = "HandleCommand")
    IN  [n \in 1..Len(hc) |-> hc[n].arg]

\* how often the handler has made the host call `op`
Count(op) == Len(SelectSeq(calls, LAMBDA c : c.op = op))

\* how many of the first n calls are `op`
CountBefore(op, n) == Cardinality({m \in 1..(n - 1) : calls[m].op = op})

\* the first sub-command for which the interpreter returned an error text,
\* 0 when none has so far
FirstErr ==
    IF \E k \in 1..Len(rets) : rets[k].err # << >>
    THEN CHOOSE k \in 1..Len(rets) :
             /\ rets[k].err # << >>
             /\ \A j \in 1..(k - 1) : rets[j].err = << >>
    ELSE 0

\* all four sub-commands have returned without an error text
AllSucceeded == Len(rets) = 4 /\ FirstErr = 0

HasPrefix(s, p) == Len(s) >= Len(p) /\ SubSeq(s, 1, Len(p)) = p

EvalPrefix ==
    <<"e", " ", "-", "l", " ", "s", "w", "i", "f", "t", " ", "-", "-", " ">>
ImportPrefix == EvalPrefix \o <<"i", "m", "p", "o", "r", "t", " ">>
PresentPrefix ==
    EvalPrefix \o
        <<"T", "r", "e", "e", "D", "u", "m", "p", "D", "e", "b", "u", "g", "g",
          "e", "r", ".", "p", "r", "e", "s", "e", "n", "t", "(">>

\* which of the four sub-commands a string is: 1 target-module import,
\* 2 UIKit import, 3 TreeDumpDebugger.present call, 4 CATransaction.flush
Kind(cmd) ==
    IF cmd = EvalPrefix \o
        <<"i", "m", "p", "o", "r", "t", " ", "U", "I", "K", "i", "t">>
    THEN 2
    ELSE IF cmd = EvalPrefix \o
              <<"C", "A", "T", "r", "a", "n", "s", "a", "c", "t", "i", "o", "n", ".",
                "f", "l", "u", "s", "h", "(", ")">>
    THEN 4
    ELSE IF HasPrefix(cmd, PresentPrefix) THEN 3
    ELSE IF HasPrefix(cmd, ImportPrefix) THEN 1
    ELSE 0

\* ----------------------------------------------------------------- claims

\* C1: the sub-commands reach the interpreter in the fixed order target-module
\* import, UIKit import, present call, flush: the j-th HandleCommand call
\* carries the j-th kind, and it is made only after every earlier
\* HandleCommand call has returned.
C1_FixedOrder ==
    \A n \in 1..Len(calls) :
        calls[n].op = "HandleCommand" =>
            LET j == CountBefore("HandleCommand", n) + 1
            IN  /\ j <= 4
                /\ Kind(calls[n].arg) = j
                /\ CountBefore("returned", n) = j - 1

C1_Witness == pc = "done" /\ Len(Submitted) = 4 /\ Len(rets) = 4

\* C2: when sub-command k is the first to return an error, exactly the
\* sub-commands 1..k have been submitted, each once, and none of k+1..4.
C2_FailFast ==
    FirstErr # 0 => Submitted = SubSeq(commands, 1, FirstErr)

C2_Witness == pc = "done" /\ FirstErr = 2 /\ Len(Submitted) = 2

\* C3: when sub-command k is the first to return an error, the result sink's
\* error at the handler's return is the text returned for step k, unchanged;
\* the sink never holds any other text.
C3_ErrorVerbatim ==
    /\ (pc = "done" /\ FirstErr # 0) => result.error = rets[FirstErr].err
    /\ result.error # << >> =>
           FirstErr # 0 /\ result.error = rets[FirstErr].err

C3_Witness ==
    /\ pc = "done"
    /\ FirstErr = 3
    /\ ~hostClears
    /\ result.error = rets[3].err

\* what holds once a sub-command has returned an error: no host call other
\* than one SetError on the sink (no SetStatus, SetAsync or Continue), the
\* process stopped, the sink's status untouched.
C4_AfterFailure ==
    FirstErr # 0 =>
        /\ Count("Continue") = 0
        /\ Count("SetAsync") = 0
        /\ Count("SetStatus") = 0
        /\ Count("GetSelectedTarget") = 0
        /\ Count("GetProcess") = 0
        /\ Count("SetError") = (IF pc = "done" THEN 1 ELSE 0)
        /\ Len(calls) = 1 + 2 * FirstErr + Count("SetError")
        /\ process = "stopped"
        /\ result.status = "Invalid"
        /\ debuggee = SubSeq(commands, 1, FirstErr)

\* C4: after a sub-command has returned an error the handler only sets the
\* sink's error (C4_AfterFailure in every state), and no step taken from
\* then on changes the process, the async mode or the debuggee.
C4_Frame ==
    /\ [] C4_AfterFailure
    /\ [][FirstErr # 0 => UNCHANGED << process, async, debuggee >>]_vars

C4_Witness ==
    /\ pc = "done"
    /\ FirstErr = 1
    /\ ~async
    /\ Count("SetError") = 1

\* C5: when all four sub-commands succeed, at the handler's return the
\* process has been resumed exactly once, async mode enabled exactly once,
\* and the sink holds no error and the status SuccessContinuingNoResult.
C5_SuccessPath ==
    (pc = "done" /\ AllSucceeded) =>
        /\ Count("Continue") = 1
        /\ Len(SelectSeq(calls, LAMBDA c :
               c.op = "SetAsync" /\ c.arg = <<"T", "r", "u", "e">>)) = 1
        /\ Count("SetAsync") = 1
        /\ Count("SetError") = 0
        /\ result.error = << >>
        /\ result.status = "SuccessContinuingNoResult"
        /\ process = "running"
        /\ async

C5_Witness == pc = "done" /\ AllSucceeded /\ process = "running"

\* whether the handler has made its decision about step i, and which
DecidedAfter(i) == i < Len(rets) \/ pc # "L21"
StoppedAt(i) == i = Len(rets) /\ (pc = "L22" \/ Count("SetError") = 1)

\* C6: the handler stops at step i exactly when the interpreter's return for
\* step i has a failure status, whatever its error text holds.
C6_StatusDecides ==
    \A i \in 1..Len(rets) :
        DecidedAfter(i) => (StoppedAt(i) <=> rets[i].status = "Failed")

\* C7: the third sub-command is the present call with the expression exactly
\* as typed between its parentheses; the other three are built without it.
C7_ExpressionVerbatim ==
    /\ Len(Submitted) >= 1 => Submitted[1] = ImportPrefix \o target
    /\ Len(Submitted) >= 2 => Kind(Submitted[2]) = 2
    /\ Len(Submitted) >= 3 =>
           Submitted[3] = PresentPrefix \o expression \o <<")">>
    /\ Len(Submitted) >= 4 => Kind(Submitted[4]) = 4

C7_Witness ==
    /\ Len(Submitted) >= 3
    /\ expression = <<" ", "'">>
    /\ Submitted[3] = PresentPrefix \o <<" ", "'", ")">>

ScenarioDone ==
    /\ pc = "done"
    /\ expression = <<"s", "e", "l", "f", ".", "v", "i", "e", "w">>
    /\ target = <<"M", "y", "A", "p", "p">>
    /\ AllSucceeded

\* C8 as stated: for expression self.view and target MyApp, all succeeding,
\* the submitted strings are exactly import MyApp, import UIKit,
\* TreeDumpDebugger.present(self.view), CATransaction.flush(); no error,
\* one Continue.
C8_BareStrings ==
    ScenarioDone =>
        /\ Submitted =
             <<
              <<"i", "m", "p", "o", "r", "t", " ", "M", "y", "A", "p", "p">>,
              <<"i", "m", "p", "o", "r", "t", " ", "U", "I", "K", "i", "t">>,
              <<"T", "r", "e", "e", "D", "u", "m", "p", "D", "e", "b", "u", "g", "g",
                "e", "r", ".", "p", "r", "e", "s", "e", "n", "t", "(", "s", "e", "l",
                "f", ".", "v", "i", "e", "w", ")">>,
              <<"C", "A", "T", "r", "a", "n", "s", "a", "c", "t", "i", "o", "n", ".",
                "f", "l", "u", "s", "h", "(", ")">>
             >>
        /\ result.error = << >>
        /\ Count("Continue") = 1

\* C8 amended: in that scenario each submitted string is the expression
\* evaluator command "e -l swift -- " followed by the statement; no error,
\* one Continue.
C8_Scenario ==
    ScenarioDone =>
        /\ Submitted =
             <<
              <<"e", " ", "-", "l", " ", "s", "w", "i", "f", "t", " ", "-", "-", " ",
                "i", "m", "p", "o", "r", "t", " ", "M", "y", "A", "p", "p">>,
              <<"e", " ", "-", "l", " ", "s", "w", "i", "f", "t", " ", "-", "-", " ",
                "i", "m", "p", "o", "r", "t", " ", "U", "I", "K", "i", "t">>,
              <<"e", " ", "-", "l", " ", "s", "w", "i", "f", "t", " ", "-", "-", " ",
                "T", "r", "e", "e", "D", "u", "m", "p", "D", "e", "b", "u", "g", "g",
                "e", "r", ".", "p", "r", "e", "s", "e", "n", "t", "(", "s", "e", "l",
                "f", ".", "v", "i", "e", "w", ")">>,
              <<"e", " ", "-", "l", " ", "s", "w", "i", "f", "t", " ", "-", "-", " ",
                "C", "A", "T", "r", "a", "n", "s", "a", "c", "t", "i", "o", "n", ".",
                "f", "l", "u", "s", "h", "(", ")">>
             >>
        /\ result.error = << >>
        /\ Count("Continue") = 1

C8_Witness == ScenarioDone /\ Len(Submitted) = 4 /\ Count("Continue") = 1

\* C9: the hand-back is SetStatus, then SetAsync, then Continue, all after the
\* fourth sub-command has returned; no sub-command is submitted or evaluated
\* once async mode has been enabled or the process resumed.
C9_HandBackOrder ==
    /\ \A n \in 1..Len(calls) :
           /\ calls[n].op \in {"SetStatus", "SetAsync", "Continue"} =>
                  /\ CountBefore("returned", n) = 4
                  /\ CountBefore("HandleCommand", n) = 4
           /\ calls[n].op = "SetAsync" =>
                  /\ CountBefore("SetStatus", n) = 1
                  /\ CountBefore("Continue", n) = 0
           /\ calls[n].op = "Continue" => CountBefore("SetAsync", n) = 1
           /\ calls[n].op \in {"HandleCommand", "returned"} =>
                  /\ CountBefore("SetAsync", n) = 0
                  /\ CountBefore("Continue", n) = 0
    /\ process = "running" => pc = "done" /\ Len(debuggee) = 4

C9_Witness ==
    /\ pc = "done"
    /\ process = "running"
    /\ Count("SetStatus") = 1
    /\ Count("SetAsync") = 1

\* C10: whenever a sub-command is submitted the reused return object holds no
\* error text, so the text the handler reads after step i is the text step i
\* produced, also with a host that appends to the object without clearing it.
C10_ReturnObjectFresh ==
    /\ pc \in {"L19", "L20", "host"} => res.err = << >>
    /\ pc \in {"L21", "L22"} => res.err = rets[Len(rets)].err

C10_Witness ==
    /\ ~hostClears
    /\ pc = "L22"
    /\ Len(rets) = 3
    /\ res.err # << >>
====
